---- MODULE Spec2Model ----
(***************************************************************************)
(* Model of the "now playing" image publisher:                             *)
(*   song_tracker.py   change-detection gate (hash of title|artist|album)  *)
(*   image_generator.py generate_image (artwork, compose, quantize, save)  *)
(*   main.py           CurrentSongApp.update_song (gate, render, publish)  *)
(*   web_server.py     the HTTP thread serving the output directory        *)
(*                                                                         *)
(* Text is a sequence of one-character strings.  A file is a record        *)
(* [exists, readable, data]; data is a sequence of chunks, so a partially  *)
(* written file is a proper prefix of the complete content.                *)
(***************************************************************************)
EXTENDS Integers, Sequences, FiniteSets, TLC

VARIABLES
    pc,         \* position of the main thread / of the function under test
    cur,        \* song_info of the running update_song invocation
    imageFile,  \* output/current_song.png
    hashFile,   \* output/current_song_hash.txt
    songA,      \* first metadata value handed to the change detector
    songB,      \* second metadata value handed to the change detector
    hashA,      \* generate_song_hash(songA)
    hashB,      \* generate_song_hash(songB)
    chgA,       \* has_song_changed(songA, hash file)
    chgB,       \* has_song_changed(songB, hash file)
    art,        \* how the artwork acquisition of this invocation went
    canvas,     \* the image generate_image composed (None before)
    did,        \* what this invocation has done so far
    imgAtStart, \* content of the image file when this invocation began
    hashAtStart,\* content of the hash file when this invocation began
    last,       \* return of the last completed update_song
    prevWhy,    \* outcome of the invocation before it
    imgOK,      \* digests of the songs whose image write fully succeeded
    caller,     \* who called generate_image: update_song, or a direct call
    wtext,      \* text handed to _wrap_text
    wmax,       \* max_width handed to _wrap_text
    wlines,     \* the lines _wrap_text returned
    lum,        \* luminance of a pixel handed to _apply_color_mode
    lumq,       \* that pixel after the grayscale conversion
    lin,        \* layout: configuration, fonts and metadata of one render
    current_y,  \* layout: the vertical cursor
    blocks,     \* layout: the wrapped lines of each text block
    todo,       \* layout: lines of the current block not yet reached
    draws,      \* layout: the draw calls made so far, in order
    served      \* last response of the web server thread

fileVars == <<imageFile, hashFile>>
wrapVars == <<wtext, wmax, wlines>>
hashVars == <<songA, songB, hashA, hashB, chgA, chgB>>
pixelVars == <<lum, lumq>>
layoutVars == <<lin, current_y, blocks, todo, draws>>
pureVars == <<hashVars, wrapVars, pixelVars, layoutVars>>
appVars  == <<cur, art, canvas, did, imgAtStart, hashAtStart, last, prevWhy, imgOK,
             caller>>

vars == <<pc, fileVars, pureVars, appVars, served>>

-----------------------------------------------------------------------------
(* Bounds *)

\* total number of characters in title + artist + album of a hashed song
MaxTotal == 2
\* number of characters of a title handed to has_song_changed / update_song
MaxTitle == 1
\* number of write chunks of the 64-character hex digest
HashChunks == 2
\* number of write chunks of the encoded image
ImgChunks == 2
\* number of characters of a text handed to _wrap_text
MaxTextLen == 4
\* largest max_width handed to _wrap_text, in pixels
MaxWidth == 3
\* largest text_margin
MaxMargin == 1
\* largest line_spacing
MaxSpacing == 1
\* largest measured height of the banner text
MaxBannerHeight == 13
\* canvas heights go from the safety margin to MaxSlack pixels above it
MaxSlack == 8

-----------------------------------------------------------------------------
(* Text *)

Chars == {"a", "A", " ", "|"}

RECURSIVE StringsOfLen(_)
StringsOfLen(n) ==
    IF n = 0 THEN {<<>>}
    ELSE {Append(s, c) : s \in StringsOfLen(n - 1), c \in Chars}

StringsUpTo(n) == UNION {StringsOfLen(k) : k \in 0..n}

\* str.isspace for one character
IsSpace(c) == c = " "

\* str.lower
lower(s) == [i \in 1..Len(s) |-> IF s[i] = "A" THEN "a" ELSE s[i]]

RECURSIVE lstrip(_)
lstrip(s) == IF s # <<>> /\ IsSpace(Head(s)) THEN lstrip(Tail(s)) ELSE s

RECURSIVE rstrip(_)
rstrip(s) ==
    IF s # <<>> /\ IsSpace(s[Len(s)]) THEN rstrip(SubSeq(s, 1, Len(s) - 1)) ELSE s

\* str.strip
strip(s) == rstrip(lstrip(s))

\* dict.get(key, default)
Get(d, key, default) == IF key \in DOMAIN d THEN d[key] ELSE default

-----------------------------------------------------------------------------
(* song_tracker.py *)

\* hashlib.sha256(...).hexdigest(): the digest is written in HashChunks
\* chunks; chunk i of the digest of s is <<s, i>>, so digests of different
\* strings differ (no collisions) and equal strings give equal digests.
sha256_hexdigest(s) == [i \in 1..HashChunks |-> <<s, i>>]

\* song_string with the .lower() calls left out
song_string_cased(song_info) ==
    LET title  == strip(Get(song_info, "title", <<>>))
        artist == strip(Get(song_info, "artist", <<>>))
        album  == strip(Get(song_info, "album", <<>>))
    IN  title \o <<"|">> \o artist \o <<"|">> \o album

\* song_string with the artwork URL appended to the hashed string
song_string_artwork(song_info) ==
    LET title  == lower(strip(Get(song_info, "title", <<>>)))
        artist == lower(strip(Get(song_info, "artist", <<>>)))
        album  == lower(strip(Get(song_info, "album", <<>>)))
    IN  title \o <<"|">> \o artist \o <<"|">> \o album
              \o <<"|", Get(song_info, "artwork_url", "None")>>

\* song_string = f"{title}|{artist}|{album}"
song_string(song_info) ==
    LET title  == lower(strip(Get(song_info, "title", <<>>)))
        artist == lower(strip(Get(song_info, "artist", <<>>)))
        album  == lower(strip(Get(song_info, "album", <<>>)))
    IN  title \o <<"|">> \o artist \o <<"|">> \o album

generate_song_hash(song_info) == sha256_hexdigest(song_string(song_info))

\* a field whose value is Python's None
NoneValue == <<"<None>">>

\* generate_song_hash raises AttributeError: .strip() on a None value
hash_raises(song_info) ==
    \E k \in {"title", "artist", "album"} :
        k \in DOMAIN song_info /\ song_info[k] = NoneValue

\* A file of the output directory.  unreadable: open(path, 'r') raises
\* something other than FileNotFoundError (permissions, a directory).
NoFile == [exists |-> FALSE, readable |-> FALSE, data |-> <<>>]
File(d) == [exists |-> TRUE, readable |-> TRUE, data |-> d]
Unreadable(d) == [exists |-> TRUE, readable |-> FALSE, data |-> d]

\* one whitespace character (a newline, a blank) in the hash file
WS == << <<>>, 0 >>

RECURSIVE content_lstrip(_)
content_lstrip(d) == IF d # <<>> /\ Head(d) = WS THEN content_lstrip(Tail(d)) ELSE d

RECURSIVE content_rstrip(_)
content_rstrip(d) ==
    IF d # <<>> /\ d[Len(d)] = WS
    THEN content_rstrip(SubSeq(d, 1, Len(d) - 1)) ELSE d

\* f.read().strip() on the content of the hash file
content_strip(d) == content_rstrip(content_lstrip(d))

\* read_hash: "" when the file does not exist or cannot be read
read_hash(f) ==
    IF ~f.exists THEN <<>>
    ELSE IF ~f.readable THEN <<>>
    ELSE content_strip(f.data)

\* has_song_changed reporting "unchanged" when there is no stored hash
has_song_changed_nohash(song_info, f) ==
    LET current_hash == generate_song_hash(song_info)
        stored_hash  == read_hash(f)
    IN  IF stored_hash = <<>> THEN FALSE
        ELSE current_hash # stored_hash

\* has_song_changed(song_info, hash_file_path)
has_song_changed(song_info, f) ==
    LET current_hash == generate_song_hash(song_info)
        stored_hash  == read_hash(f)
    IN  IF stored_hash = <<>> THEN TRUE
        ELSE current_hash # stored_hash

-----------------------------------------------------------------------------
(* Inputs of the change detector *)

Song(title, artist, album, url, time) ==
    [title |-> title, artist |-> artist, album |-> album,
     artwork_url |-> url, play_time |-> time]

\* every (title, artist, album) of at most MaxTotal characters in all
Triples ==
    UNION {UNION {{<<t, a, b>> : b \in StringsUpTo(MaxTotal - Len(t) - Len(a))} :
                  a \in StringsUpTo(MaxTotal - Len(t))} :
           t \in StringsUpTo(MaxTotal)}

HashSongs == {Song(x[1], x[2], x[3], "None", "None") : x \in Triples}

\* metadata as the adapter yields it (all five keys), and dictionaries
\* lacking keys
GateSongs ==
    {Song(t, <<>>, <<>>, u, p) :
        t \in StringsUpTo(MaxTitle), u \in {"None", "url"}, p \in {"None", "time"}}
    \cup {[artwork_url |-> "url"], [title |-> <<"a">>, play_time |-> "time"]}

\* what the hash file may hold when has_song_changed is called
GateFiles(a, b) ==
    LET ds == {generate_song_hash(a), generate_song_hash(b)}
        contents == {<<>>, <<WS>>, <<WS, WS>>}
                    \cup ds
                    \cup {<<WS>> \o d \o <<WS>> : d \in ds}
                    \cup {SubSeq(d, 1, HashChunks - 1) : d \in ds}
    IN  {NoFile} \cup {File(d) : d \in contents}
                 \cup {Unreadable(d) : d \in ds}

-----------------------------------------------------------------------------
(* The change detector applied to two metadata values *)

None == [none |-> TRUE]

HashIdle ==
    /\ songA = None /\ songB = None
    /\ hashA = <<>> /\ hashB = <<>>
    /\ chgA = FALSE /\ chgB = FALSE

WrapIdle == wtext = <<>> /\ wmax = 0 /\ wlines = <<>>

PixelIdle == lum = 0 /\ lumq = 0

NoBlocks == [title |-> <<>>, artist |-> <<>>, album |-> <<>>]

LayoutIdle ==
    /\ lin = [none |-> TRUE]
    /\ current_y = 0
    /\ blocks = NoBlocks
    /\ todo = <<>>
    /\ draws = <<>>

AppIdle ==
    /\ cur = None
    /\ art = "none"
    /\ canvas = None
    /\ did = {}
    /\ imgAtStart = NoFile
    /\ hashAtStart = NoFile
    /\ last = [ret |-> FALSE, why |-> "init", at |-> ""]
    /\ prevWhy = "init"
    /\ imgOK = {}
    /\ caller = "update_song"
    /\ served = [path |-> "", status |-> 0, body |-> <<>>]

Idle == imageFile = NoFile /\ AppIdle /\ WrapIdle /\ PixelIdle /\ LayoutIdle

InitHash ==
    /\ pc = "input"
    /\ songA \in HashSongs
    /\ songB \in HashSongs
    /\ hashA = <<>> /\ hashB = <<>>
    /\ chgA = FALSE /\ chgB = FALSE
    /\ hashFile = NoFile
    /\ Idle

InitGate ==
    /\ pc = "input"
    /\ songA \in GateSongs
    /\ songB \in GateSongs
    /\ hashFile \in GateFiles(songA, songB)
    /\ hashA = <<>> /\ hashB = <<>>
    /\ chgA = FALSE /\ chgB = FALSE
    /\ Idle

\* generate_song_hash on both values
ComputeHashes ==
    /\ pc = "input"
    /\ hashA' = generate_song_hash(songA)
    /\ hashB' = generate_song_hash(songB)
    /\ pc' = "hashed"
    /\ UNCHANGED <<fileVars, appVars, served, wrapVars, pixelVars, layoutVars, songA, songB, chgA, chgB>>

\* has_song_changed on both values against the same hash file
CheckChanged ==
    /\ pc = "input"
    /\ hashA' = generate_song_hash(songA)
    /\ hashB' = generate_song_hash(songB)
    /\ chgA' = has_song_changed(songA, hashFile)
    /\ chgB' = has_song_changed(songB, hashFile)
    /\ pc' = "checked"
    /\ UNCHANGED <<fileVars, appVars, served, wrapVars, pixelVars, layoutVars, songA, songB>>

SpecHash == InitHash /\ [][ComputeHashes]_vars

SpecGate == InitGate /\ [][CheckChanged]_vars

-----------------------------------------------------------------------------
(* image_generator.py: _wrap_text *)

\* str.split(): the maximal runs of non-whitespace characters
RECURSIVE split_from(_, _, _)
split_from(s, word, words) ==
    IF s = <<>> THEN (IF word = <<>> THEN words ELSE Append(words, word))
    ELSE IF IsSpace(Head(s))
         THEN split_from(Tail(s), <<>>, IF word = <<>> THEN words ELSE Append(words, word))
         ELSE split_from(Tail(s), Append(word, Head(s)), words)

split(s) == split_from(s, <<>>, <<>>)

\* ' '.join(list)
RECURSIVE join(_)
join(list) ==
    IF list = <<>> THEN <<>>
    ELSE IF Len(list) = 1 THEN list[1]
    ELSE list[1] \o <<" ">> \o join(Tail(list))

\* font.getbbox(line): bbox[2] - bbox[0], the advance widths added up
\* ("W" is a wide glyph)
RECURSIVE text_width(_)
text_width(s) ==
    IF s = <<>> THEN 0
    ELSE (IF Head(s) = "W" THEN 2 ELSE 1) + text_width(Tail(s))

\* the loop of _wrap_text with a too long word dropped when it follows a
\* non-empty line
RECURSIVE wrap_loop_dropping(_, _, _, _)
wrap_loop_dropping(words, current_line, lines, max_width) ==
    IF words = <<>>
    THEN (IF current_line # <<>> THEN Append(lines, join(current_line)) ELSE lines)
    ELSE LET word      == Head(words)
             test_line == join(Append(current_line, word))
         IN  IF text_width(test_line) <= max_width
             THEN wrap_loop_dropping(Tail(words), Append(current_line, word), lines, max_width)
             ELSE IF current_line # <<>>
             THEN wrap_loop_dropping(Tail(words), <<>>,
                                     Append(lines, join(current_line)), max_width)
             ELSE wrap_loop_dropping(Tail(words), <<>>, Append(lines, word), max_width)

\* "for word in words: ..." and the final flush of current_line
RECURSIVE wrap_loop(_, _, _, _)
wrap_loop(words, current_line, lines, max_width) ==
    IF words = <<>>
    THEN (IF current_line # <<>> THEN Append(lines, join(current_line)) ELSE lines)
    ELSE LET word      == Head(words)
             test_line == join(Append(current_line, word))
         IN  IF text_width(test_line) <= max_width
             THEN wrap_loop(Tail(words), Append(current_line, word), lines, max_width)
             ELSE IF current_line # <<>>
             THEN wrap_loop(Tail(words), <<word>>,
                            Append(lines, join(current_line)), max_width)
             ELSE wrap_loop(Tail(words), <<>>, Append(lines, word), max_width)

\* _wrap_text returning no line at all for a text without words
wrap_text_nofallback(text, max_width) == wrap_loop(split(text), <<>>, <<>>, max_width)

\* _wrap_text(text, font, max_width): "return lines if lines else [text]"
wrap_text(text, max_width) ==
    LET lines == wrap_loop(split(text), <<>>, <<>>, max_width)
    IN  IF lines # <<>> THEN lines ELSE <<text>>

WrapChars == {"a", "W", " "}

RECURSIVE WrapTextsOfLen(_)
WrapTextsOfLen(n) ==
    IF n = 0 THEN {<<>>}
    ELSE {Append(s, c) : s \in WrapTextsOfLen(n - 1), c \in WrapChars}

WrapTexts == UNION {WrapTextsOfLen(k) : k \in 0..MaxTextLen}

InitWrap ==
    /\ pc = "input"
    /\ wtext \in WrapTexts
    /\ wmax \in 0..MaxWidth
    /\ wlines = <<>>
    /\ hashFile = NoFile /\ imageFile = NoFile
    /\ HashIdle /\ AppIdle /\ PixelIdle /\ LayoutIdle

\* one call of _wrap_text
WrapText ==
    /\ pc = "input"
    /\ wlines' = wrap_text(wtext, wmax)
    /\ pc' = "wrapped"
    /\ UNCHANGED <<fileVars, appVars, served, hashVars, pixelVars, layoutVars, wtext, wmax>>

SpecWrap == InitWrap /\ [][WrapText]_vars

-----------------------------------------------------------------------------
(* image_generator.py: _apply_color_mode, grayscale *)

\* the values of a pixel of an 'L' image
Luminance == 0..255

\* the point function with buckets as wide as the distance of the levels
point_by_level(x) == (x \div 85) * 85

\* img.point(lambda x: (x // 64) * 85); the convert('L') that follows is
\* applied to an 'L' image and leaves every pixel as it is
point(x) == (x \div 64) * 85

InitPixel ==
    /\ pc = "input"
    /\ lum \in Luminance
    /\ lumq = 0
    /\ hashFile = NoFile /\ imageFile = NoFile
    /\ HashIdle /\ AppIdle /\ WrapIdle /\ LayoutIdle

\* _apply_color_mode in grayscale mode, on one pixel
ApplyGrayscale ==
    /\ pc = "input"
    /\ lumq' = point(lum)
    /\ pc' = "converted"
    /\ UNCHANGED <<fileVars, appVars, served, hashVars, wrapVars, layoutVars, lum>>

SpecPixel == InitPixel /\ [][ApplyGrayscale]_vars

-----------------------------------------------------------------------------
(* radio_client.py: get_current_song; image_generator.py: the text layout  *)
(* of generate_image                                                       *)

\* the default of song_info.get('title' / 'artist' / 'album', ...)
Unknown == <<"U", "n", "k", "n", "o", "w", "n">>

\* the song_info get_current_song builds from the upstream song: a field the
\* upstream song lacks gets the default '' (artwork_url: None)
get_current_song(song, play_time) ==
    [title       |-> Get(song, "title", <<>>),
     artist      |-> Get(song, "artist", <<>>),
     album       |-> Get(song, "album", <<>>),
     artwork_url |-> Get(song, "artwork_url", "None"),
     play_time   |-> play_time]

\* _format_play_time: '' for no play time, else the formatted time
format_play_time(play_time) == IF play_time = "None" THEN <<>> ELSE <<"t">>

\* f"DoubleJ   {play_time_str}"
time_text(play_time_str) ==
    <<"D", "o", "u", "b", "l", "e", "J", " ", " ", " ">> \o play_time_str

\* font.getbbox(line): bbox[3] - bbox[1], the tallest glyph of the line
\* (nothing for the empty line and for spaces)
RECURSIVE line_height(_)
line_height(line) ==
    IF line = <<>> THEN 0
    ELSE LET h    == IF Head(line) = " " THEN 0 ELSE IF Head(line) = "a" THEN 1 ELSE 2
             rest == line_height(Tail(line))
         IN  IF h >= rest THEN h ELSE rest

\* "padding = 3"
padding == 3

\* bottom row of draw.rectangle([artwork_size, 0, width, 18])
BannerBottom == 18

\* the margin of "if current_y + 20 > self.height"
SafetyMargin == 20

\* the album loop never breaking
fits_always(y, height) == TRUE

\* negation of the break test "current_y + 20 > self.height"
fits(y, height) == ~(y + SafetyMargin > height)

\* upstream songs: each of title, artist and album present or not
UpstreamSongs ==
    LET full == [title  |-> <<"a", " ", "W">>,
                 artist |-> <<"a">>,
                 album  |-> <<"W", " ", "a", " ", "W">>]
    IN  {[k \in D |-> full[k]] : D \in SUBSET {"title", "artist", "album"}}

\* metadata handed to generate_image: what get_current_song makes of an
\* upstream song, or a dictionary holding only the keys that have a value
LayoutSongs ==
    UNION {{[via |-> "get_current_song", upstream |-> s,
             song_info |-> get_current_song(s, pt)],
            [via |-> "dict", upstream |-> s,
             song_info |-> [k \in DOMAIN s \cup {"play_time"} |->
                               IF k = "play_time" THEN pt ELSE s[k]]]}
           : s \in UpstreamSongs, pt \in {"None", "time"}}

\* measured heights of the banner text: the four largest
BannerHeights == {bh \in 0..MaxBannerHeight : bh + 4 > MaxBannerHeight}

\* configuration and font: margins, spacing, a canvas as high as the square
\* artwork and wide enough for a text area of 1 or MaxWidth pixels, and the
\* measured height of the banner text (measured only with a play time)
LayoutInputs ==
    UNION {{[via |-> m.via, upstream |-> m.upstream, song_info |-> m.song_info,
             text_margin |-> tm, line_spacing |-> ls,
             height |-> h, artwork_size |-> h, width |-> h + 2 * tm + tw,
             banner_height |-> bh]
            : bh \in IF m.song_info.play_time = "None" THEN {0}
                     ELSE BannerHeights,
              tw \in {1, MaxWidth}}
           : m \in LayoutSongs, tm \in 0..MaxMargin, ls \in 0..MaxSpacing,
             h \in SafetyMargin..(SafetyMargin + MaxSlack)}

InitLayout ==
    /\ pc = "layout"
    /\ lin \in LayoutInputs
    /\ current_y = 0
    /\ blocks = NoBlocks
    /\ todo = <<>>
    /\ draws = <<>>
    /\ hashFile = NoFile /\ imageFile = NoFile
    /\ HashIdle /\ AppIdle /\ WrapIdle /\ PixelIdle

text_x == lin.artwork_size + lin.text_margin

max_text_width == lin.width - text_x - lin.text_margin

DrawText(block, line, y) == [op |-> "text", block |-> block, text |-> line, y |-> y]

LayoutRest == UNCHANGED <<fileVars, appVars, served, hashVars, wrapVars, pixelVars, lin>>

\* lines 239-277: text area, play time banner, wrapping of the title
LayoutBegin ==
    /\ pc = "layout"
    /\ LET play_time_str == format_play_time(Get(lin.song_info, "play_time", "None"))
           title_lines   == wrap_text(Get(lin.song_info, "title", Unknown), max_text_width)
       IN  /\ IF play_time_str # <<>>
              THEN /\ draws' = <<[op |-> "rectangle", block |-> "time", text |-> <<>>,
                                  y |-> BannerBottom],
                                 DrawText("time", time_text(play_time_str), 2)>>
                   /\ current_y' = lin.text_margin
                                      + lin.banner_height + padding * 2 + lin.line_spacing
              ELSE /\ draws' = <<>>
                   /\ current_y' = lin.text_margin
           /\ blocks' = [blocks EXCEPT !.title = title_lines]
           /\ todo' = title_lines
    /\ pc' = "title"
    /\ LayoutRest

\* one turn of the title loop or of the artist loop
DrawLine ==
    /\ pc \in {"title", "artist"}
    /\ todo # <<>>
    /\ draws' = Append(draws, DrawText(pc, Head(todo), current_y))
    /\ current_y' = current_y + line_height(Head(todo)) + lin.line_spacing
    /\ todo' = Tail(todo)
    /\ UNCHANGED <<pc, blocks>>
    /\ LayoutRest

\* lines 284-290: extra space after the title, wrapping of the artist
EndTitle ==
    /\ pc = "title"
    /\ todo = <<>>
    /\ current_y' = current_y + lin.line_spacing
    /\ LET artist_lines == wrap_text(Get(lin.song_info, "artist", Unknown), max_text_width)
       IN  /\ blocks' = [blocks EXCEPT !.artist = artist_lines]
           /\ todo' = artist_lines
    /\ pc' = "artist"
    /\ UNCHANGED draws
    /\ LayoutRest

\* lines 297-303: extra space after the artist, wrapping of the album
EndArtist ==
    /\ pc = "artist"
    /\ todo = <<>>
    /\ current_y' = current_y + lin.line_spacing
    /\ LET album_lines == wrap_text(Get(lin.song_info, "album", Unknown), max_text_width)
       IN  /\ blocks' = [blocks EXCEPT !.album = album_lines]
           /\ todo' = album_lines
    /\ pc' = "album"
    /\ UNCHANGED draws
    /\ LayoutRest

\* one turn of the album loop that draws its line
DrawAlbumLine ==
    /\ pc = "album"
    /\ todo # <<>>
    /\ fits(current_y, lin.height)
    /\ draws' = Append(draws, DrawText("album", Head(todo), current_y))
    /\ current_y' = current_y + line_height(Head(todo)) + lin.line_spacing
    /\ todo' = Tail(todo)
    /\ UNCHANGED <<pc, blocks>>
    /\ LayoutRest

\* the turn of the album loop that breaks
AlbumBreak ==
    /\ pc = "album"
    /\ todo # <<>>
    /\ ~fits(current_y, lin.height)
    /\ pc' = "drawn"
    /\ UNCHANGED <<current_y, blocks, todo, draws>>
    /\ LayoutRest

\* the album loop running out of lines
EndAlbum ==
    /\ pc = "album"
    /\ todo = <<>>
    /\ pc' = "drawn"
    /\ UNCHANGED <<current_y, blocks, todo, draws>>
    /\ LayoutRest

NextLayout ==
    \/ LayoutBegin
    \/ DrawLine
    \/ EndTitle
    \/ EndArtist
    \/ DrawAlbumLine
    \/ AlbumBreak
    \/ EndAlbum

SpecLayout == InitLayout /\ [][NextLayout]_vars

-----------------------------------------------------------------------------
(* image_generator.py: generate_image *)

AllKeys == {"title", "artist", "album", "artwork_url", "play_time"}

\* what RadioClient.get_current_song returns: a dictionary with all five
\* keys, or None.  Two of the titles differ only in case, the third is
\* another song; each comes with and without an artwork URL.
PollTitles == {<<"a">>, <<"A">>, <<"|">>}

PollSongs ==
    {Song(t, <<>>, <<>>, u, "None") : t \in PollTitles, u \in {"None", "url"}}

\* what the artwork server answers
ArtOutcomes(url) ==
    IF url = "None" THEN {"no_url"}
    ELSE {"fetched", "network_error", "http_error", "timeout",
          "bad_at_open", "bad_at_load"}

\* _fetch_artwork: None without a URL and on any exception of
\* requests.get, raise_for_status or Image.open.  Image.open reads the
\* header only, so content whose pixel data cannot be decoded comes back as
\* an image object ("bad_at_load") like a good one ("fetched").
fetch_artwork(url, outcome) ==
    IF url = "None" THEN "None"
    ELSE IF outcome \in {"network_error", "http_error", "timeout", "bad_at_open"}
         THEN "None"
    ELSE outcome

\* the square handed to resize: the placeholder when the fetch gave None
artwork_or_placeholder(fetched) ==
    IF fetched = "None" THEN "placeholder" ELSE fetched

\* artwork.resize loads the pixels: it raises for undecodable pixel data
resize_raises(artwork) == artwork = "bad_at_load"

\* _wrap_text raises AttributeError: text.split() on a None value (the
\* 'Unknown' default of .get applies to a missing key only)
layout_raises(song_info) ==
    \E k \in {"title", "artist", "album"} :
        k \in DOMAIN song_info /\ song_info[k] = NoneValue

\* the encoded image of a canvas, as img.save writes it
encoded(c) == [i \in 1..ImgChunks |-> <<c, i>>]

-----------------------------------------------------------------------------
(* main.py: CurrentSongApp.update_song *)

Return(ret, why, at) ==
    /\ pc' = "idle"
    /\ last' = [ret |-> ret, why |-> why, at |-> at]

\* update_song without its "except Exception": the exception leaves it
update_song_except_missing(at) == Return(FALSE, "exception", at)

\* update_song: "except Exception as e: ... return False"
update_song_except(at) == Return(FALSE, "error", at)

\* the f-string of logger.info raises KeyError: song_info['title'],
\* song_info['artist']
log_raises(song_info) == ~({"title", "artist"} \subseteq DOMAIN song_info)

\* update_song going on to save the hash whatever generate_image returned
AfterGenerateImage_unchecked(ok, at) ==
    /\ pc' = "hash_open"
    /\ last' = last

\* "if not self.image_generator.generate_image(...): return False"
AfterGenerateImage(ok, at) ==
    IF ok THEN pc' = "hash_open" /\ last' = last
    ELSE Return(FALSE, "genfail", at)

\* generate_image returns to its caller: update_song, or a direct caller
\* that gets the boolean
GenerateImageReturns(ok, at) ==
    IF caller = "update_song" THEN AfterGenerateImage(ok, at)
    ELSE Return(ok, "generate_image", at)

\* generate_image: "except Exception as e: ... return False"
generate_image_except(at) == GenerateImageReturns(FALSE, at)

\* the hash written with the raw, not canonicalized, song string
hash_to_save_raw(song_info) == sha256_hexdigest(song_string_cased(song_info))

\* song_hash = self.song_tracker.generate_song_hash(song_info)
hash_to_save(song_info) == generate_song_hash(song_info)

\* has_song_changed always reporting a change
gate_open_always(song_info, f) == TRUE

\* "if not self.song_tracker.has_song_changed(song_info, hash_path)"
gate_open(song_info, f) == has_song_changed(song_info, f)

Init ==
    /\ pc = "idle"
    /\ hashFile = NoFile
    /\ songA = None /\ songB = None
    /\ hashA = <<>> /\ hashB = <<>>
    /\ chgA = FALSE /\ chgB = FALSE
    /\ Idle

\* update_song up to the change gate: poll, no song -> False,
\* unchanged -> True, changed -> go on to generate_image
UpdateSongGate(song_info) ==
    /\ pc = "idle"
    /\ cur' = song_info
    /\ art' = "none" /\ canvas' = None /\ did' = {}
    /\ imgAtStart' = imageFile /\ hashAtStart' = hashFile
    /\ prevWhy' = last.why
    /\ caller' = "update_song"
    /\ IF song_info = None THEN Return(FALSE, "nosong", "")
       ELSE IF hash_raises(song_info) THEN update_song_except("gate")
       ELSE IF ~gate_open(song_info, hashFile) THEN Return(TRUE, "unchanged", "")
       ELSE IF log_raises(song_info) THEN update_song_except("log")
       ELSE pc' = "generate" /\ last' = last
    /\ UNCHANGED <<fileVars, pureVars, imgOK, served>>

\* generate_image(song_info, output_path) called on its own
CallGenerateImage(song_info) ==
    /\ pc = "idle"
    /\ cur' = song_info
    /\ art' = "none" /\ canvas' = None /\ did' = {}
    /\ imgAtStart' = imageFile /\ hashAtStart' = hashFile
    /\ prevWhy' = last.why
    /\ caller' = "generate_image"
    /\ pc' = "generate" /\ last' = last
    /\ UNCHANGED <<fileVars, pureVars, imgOK, served>>

\* generate_image up to img.save: artwork, resize, compose, quantize
GenerateImage ==
    /\ pc = "generate"
    /\ \E outcome \in ArtOutcomes(Get(cur, "artwork_url", "None")) :
          LET url     == Get(cur, "artwork_url", "None")
              artwork == artwork_or_placeholder(fetch_artwork(url, outcome))
          IN  /\ art' = outcome
              /\ IF resize_raises(artwork)
                 THEN /\ did' = did \cup {"fetch_artwork"}
                      /\ canvas' = canvas
                      /\ generate_image_except("resize")
                 ELSE IF layout_raises(cur)
                 THEN /\ did' = did \cup {"fetch_artwork"}
                      /\ canvas' = canvas
                      /\ generate_image_except("layout")
                 ELSE /\ did' = did \cup {"fetch_artwork", "compose", "quantize"}
                      /\ canvas' = [song |-> cur, artwork |-> artwork]
                      /\ pc' = "img_open" /\ last' = last
    /\ UNCHANGED <<fileVars, pureVars, cur, imgAtStart, hashAtStart, prevWhy,
                   imgOK, caller, served>>

\* img.save(output_path): open(output_path, "w+b") truncates the published
\* file, or raises and leaves it alone
ImgSaveOpen ==
    /\ pc = "img_open"
    /\ \/ /\ imageFile' = File(<<>>)
          /\ did' = did \cup {"image_open"}
          /\ pc' = "img_write" /\ last' = last
       \/ /\ imageFile' = imageFile
          /\ did' = did
          /\ generate_image_except("open")
    /\ UNCHANGED <<hashFile, pureVars, cur, art, canvas, imgAtStart, hashAtStart,
                   prevWhy, imgOK, caller, served>>

\* img.save(output_path): the encoder writes the next chunk, or raises; the
\* library then closes the file, and a file this call created is removed or
\* left as written (library versions differ); a file that existed stays as
\* written so far
ImgSaveWrite ==
    /\ pc = "img_write"
    /\ \/ LET data == Append(imageFile.data, encoded(canvas)[Len(imageFile.data) + 1])
          IN  /\ imageFile' = File(data)
              /\ IF Len(data) = ImgChunks
                 THEN /\ did' = did \cup {"image_saved"}
                      /\ imgOK' = imgOK \cup {generate_song_hash(cur)}
                      /\ GenerateImageReturns(TRUE, "")
                 ELSE /\ did' = did /\ imgOK' = imgOK
                      /\ pc' = pc /\ last' = last
       \/ /\ imageFile' \in (IF imgAtStart.exists THEN {imageFile} ELSE {imageFile, NoFile})
          /\ did' = did /\ imgOK' = imgOK
          /\ generate_image_except("write")
    /\ UNCHANGED <<hashFile, pureVars, cur, art, canvas, imgAtStart, hashAtStart,
                   prevWhy, caller, served>>

\* save_hash: open(output_path, 'w') truncates the hash file, or raises
SaveHashOpen ==
    /\ pc = "hash_open"
    /\ \/ /\ hashFile' = File(<<>>)
          /\ did' = did \cup {"hash_open"}
          /\ pc' = "hash_write" /\ last' = last
       \/ /\ hashFile' = hashFile
          /\ did' = did
          /\ Return(FALSE, "hashfail", "open")
    /\ UNCHANGED <<imageFile, pureVars, cur, art, canvas, imgAtStart, hashAtStart,
                   prevWhy, imgOK, caller, served>>

\* save_hash: f.write(hash_value) and the close that flushes it, or an
\* exception part-way
SaveHashWrite ==
    /\ pc = "hash_write"
    /\ \/ LET data == Append(hashFile.data, hash_to_save(cur)[Len(hashFile.data) + 1])
          IN  /\ hashFile' = File(data)
              /\ IF Len(data) = HashChunks
                 THEN /\ did' = did \cup {"hash_saved"}
                      /\ Return(TRUE, "ok", "")
                 ELSE /\ did' = did
                      /\ pc' = pc /\ last' = last
       \/ /\ hashFile' = hashFile
          /\ did' = did
          /\ Return(FALSE, "hashfail", "write")
    /\ UNCHANGED <<imageFile, pureVars, cur, art, canvas, imgAtStart, hashAtStart,
                   prevWhy, imgOK, caller, served>>

-----------------------------------------------------------------------------
(* web_server.py: the daemon thread serving the output directory *)

FileAt(path) == IF path = "current_song.png" THEN imageFile ELSE hashFile

\* SimpleHTTPRequestHandler GET: the file as it is on disk right now
HttpGet(path) ==
    /\ served' = IF FileAt(path).exists
                 THEN [path |-> path, status |-> 200, body |-> FileAt(path).data]
                 ELSE [path |-> path, status |-> 404, body |-> <<>>]
    /\ UNCHANGED <<pc, fileVars, pureVars, appVars>>

Publish ==
    \/ GenerateImage
    \/ ImgSaveOpen
    \/ ImgSaveWrite
    \/ SaveHashOpen
    \/ SaveHashWrite

Next ==
    \/ \E song_info \in PollSongs \cup {None} : UpdateSongGate(song_info)
    \/ Publish

\* the main thread alone (the server thread writes nothing)
Spec == Init /\ [][Next]_vars

Serve == \E path \in {"current_song.png", "current_song_hash.txt"} : HttpGet(path)

\* the songs polled while the server thread is watched
ServeSongs ==
    {Song(<<"a">>, <<>>, <<>>, "None", "None"), Song(<<"|">>, <<>>, <<>>, "url", "None")}

NextServe ==
    \/ \E song_info \in ServeSongs \cup {None} : UpdateSongGate(song_info)
    \/ Publish
    \/ Serve

\* the main thread and the server thread, interleaved at the file operations
SpecServe == Init /\ [][NextServe]_vars

\* metadata of any shape: the adapter's, None-valued fields, missing keys
AnySongs ==
    {Song(<<"a">>, <<>>, <<>>, "url", "None"),
     Song(NoneValue, <<>>, <<>>, "None", "None"),
     Song(<<"a">>, <<>>, NoneValue, "None", "time"),
     [artist |-> <<>>, album |-> <<>>, artwork_url |-> "None", play_time |-> "None"],
     [title |-> <<"a">>, album |-> <<>>],
     [artwork_url |-> "url"]}

NextAny ==
    \/ \E song_info \in AnySongs \cup {None} : UpdateSongGate(song_info)
    \/ \E song_info \in AnySongs : CallGenerateImage(song_info)
    \/ Publish

\* update_song and generate_image called with metadata of any shape
SpecAny == Init /\ [][NextAny]_vars

\* the songs of the retried invocations and of what was published before
HealSongs ==
    {Song(<<"A">>, <<>>, <<>>, "None", "None"), Song(<<"|">>, <<>>, <<>>, "url", "None")}

\* the output directory as earlier invocations left it: nothing, or the
\* published image and hash of a song
InitHeal ==
    /\ pc = "idle"
    /\ \/ imageFile = NoFile /\ hashFile = NoFile
       \/ \E n \in HealSongs :
             /\ imageFile = File(encoded([song |-> n, artwork |-> "placeholder"]))
             /\ hashFile = File(generate_song_hash(n))
    /\ HashIdle /\ AppIdle /\ WrapIdle /\ PixelIdle /\ LayoutIdle

\* run(): update_song again and again while the station keeps playing the
\* same song
PollSameSong ==
    \E song_info \in HealSongs :
        /\ cur = None \/ song_info = cur
        /\ UpdateSongGate(song_info)

NextHeal ==
    \/ PollSameSong
    \/ Publish

\* the steps of generate_image and save_hash that do not raise
GenerateImageOK == GenerateImage /\ pc' = "img_open"
ImgSaveOpenOK == ImgSaveOpen /\ pc' = "img_write"
ImgSaveWriteOK(k) == ImgSaveWrite /\ pc' # "idle" /\ Len(imageFile'.data) = k
SaveHashOpenOK == SaveHashOpen /\ pc' = "hash_write"
SaveHashWriteOK(k) ==
    SaveHashWrite /\ Len(hashFile'.data) = k /\ Len(hashFile.data) = k - 1

\* the loop of run() keeps polling, and no step of rendering, image save or
\* hash save fails for ever
FairHeal ==
    /\ WF_vars(PollSameSong)
    /\ SF_vars(GenerateImageOK)
    /\ SF_vars(ImgSaveOpenOK)
    /\ \A k \in 1..ImgChunks : SF_vars(ImgSaveWriteOK(k))
    /\ SF_vars(SaveHashOpenOK)
    /\ \A k \in 1..HashChunks : SF_vars(SaveHashWriteOK(k))

\* one song polled repeatedly, with saves that fail but not for ever
SpecHeal == InitHeal /\ [][NextHeal]_vars /\ FairHeal

-----------------------------------------------------------------------------
(* Canonical form of the song identity, as the specification words it:     *)
(* trim surrounding whitespace, then lowercase.                            *)

Trimmed(s) ==
    LET keep == {i \in 1..Len(s) : s[i] # " "}
    IN  IF keep = {} THEN <<>>
        ELSE SubSeq(s, CHOOSE i \in keep : \A j \in keep : i <= j,
                       CHOOSE i \in keep : \A j \in keep : i >= j)

Lowercased(s) == [i \in 1..Len(s) |-> IF s[i] = "A" THEN "a" ELSE s[i]]

HasTriple(m) == {"title", "artist", "album"} \subseteq DOMAIN m

CanonTriple(m) ==
    <<Lowercased(Trimmed(m.title)), Lowercased(Trimmed(m.artist)),
      Lowercased(Trimmed(m.album))>>

RawTriple(m) == <<m.title, m.artist, m.album>>

\* the two values differ at most in artwork_url and play_time
SameButArtworkAndTime(a, b) ==
    /\ DOMAIN a \ {"artwork_url", "play_time"} = DOMAIN b \ {"artwork_url", "play_time"}
    /\ \A k \in DOMAIN a \ {"artwork_url", "play_time"} : a[k] = b[k]

\* no previous hash: no file, an unreadable file, or only whitespace in it
NoPreviousHash(f) ==
    \/ ~f.exists
    \/ ~f.readable
    \/ \A i \in 1..Len(f.data) : f.data[i] = WS

-----------------------------------------------------------------------------
(* Claims about the change detector *)

\* C5: has_song_changed returns True for every metadata value whenever no
\* previous hash is available (the hash file does not exist, cannot be
\* read, or holds nothing but whitespace).
C5_NoPreviousHashMeansChanged ==
    (pc = "checked" /\ NoPreviousHash(hashFile)) => (chgA /\ chgB)

C5_Witness ==
    /\ pc = "checked"
    /\ hashFile.exists /\ hashFile.readable
    /\ hashFile.data = <<WS, WS>>
    /\ "title" \notin DOMAIN songA
    /\ chgA /\ chgB

\* C7: two metadata values whose title, artist and album are pairwise equal
\* after trimming surrounding whitespace and lowercasing get the same digest.
C7_EqualCanonicalSameDigest ==
    (pc = "hashed" /\ CanonTriple(songA) = CanonTriple(songB)) => hashA = hashB

C7_Witness ==
    /\ pc = "hashed"
    /\ songA.title = <<"A", " ">> /\ songB.title = <<" ", "a">>
    /\ CanonTriple(songA) = CanonTriple(songB)
    /\ hashA = hashB

\* C8: two metadata values get the same hash input string, and the same
\* digest, exactly when their canonicalized (title, artist, album) triples
\* are equal; different canonical triples never share a string or a digest.
C8_SameDigestIffSameCanonical ==
    pc = "hashed" =>
        /\ (song_string(songA) = song_string(songB))
               <=> (CanonTriple(songA) = CanonTriple(songB))
        /\ (hashA = hashB) <=> (CanonTriple(songA) = CanonTriple(songB))

\* C9: two metadata values that differ only in artwork_url and/or play_time
\* get the same digest, and has_song_changed gives the same result for both
\* against the same stored hash.
C9_ArtworkAndTimeIgnored ==
    (pc = "checked" /\ SameButArtworkAndTime(songA, songB))
        => (hashA = hashB /\ chgA = chgB)

C9_Witness ==
    /\ pc = "checked"
    /\ HasTriple(songA) /\ HasTriple(songB)
    /\ SameButArtworkAndTime(songA, songB)
    /\ songA.artwork_url # songB.artwork_url
    /\ songA.play_time # songB.play_time
    /\ hashFile = File(hashA)
    /\ hashA = hashB
    /\ ~chgA /\ ~chgB

-----------------------------------------------------------------------------
(* Claims about update_song and generate_image *)

IsPrefix(p, s) == Len(p) <= Len(s) /\ p = SubSeq(s, 1, Len(p))

CompleteHash(f) == f.exists /\ Len(f.data) = HashChunks

CompleteImage(f) == f.exists /\ Len(f.data) = ImgChunks

ArtworkFailures ==
    {"no_url", "network_error", "http_error", "timeout", "bad_at_open", "bad_at_load"}

\* C1: when generate_image fails at any step, the previously published
\* image file holds after the invocation what it held before it.
C1_FailedRenderKeepsImage ==
    (pc = "idle" /\ last.why = "genfail" /\ CompleteImage(imgAtStart))
        => imageFile = imgAtStart

\* C2: the hash file is written only after generate_image returned True for
\* the same metadata (the complete image of that metadata is on disk); a
\* failed generate_image leaves the hash file as it was; and a complete
\* hash in the file is always the hash of a song whose image write fully
\* succeeded.
C2_HashOnlyAfterImage ==
    /\ hashFile # hashAtStart =>
          /\ "image_saved" \in did
          /\ canvas # None /\ canvas.song = cur
          /\ imageFile = File(encoded(canvas))
          /\ IsPrefix(hashFile.data, generate_song_hash(cur))
    /\ (pc = "idle" /\ last.why = "genfail") => hashFile = hashAtStart
    /\ CompleteHash(hashFile) => hashFile.data \in imgOK

C2_Witness ==
    /\ pc = "idle" /\ last.why = "genfail" /\ last.at = "write"
    /\ CompleteHash(hashFile) /\ hashFile = hashAtStart
    /\ hashFile.data # generate_song_hash(cur)
    /\ ~CompleteImage(imageFile)

\* C3: an HTTP reader of the image file or of the hash file only ever gets
\* a complete version of it, never a truncated or half-written one.
C3_NeverServedPartial ==
    served.status = 200 =>
        Len(served.body) = (IF served.path = "current_song.png"
                            THEN ImgChunks ELSE HashChunks)

\* C4: when the stored hash is non-empty and equals the hash of the incoming
\* metadata, update_song returns True without an artwork fetch, a
\* composition, a quantization or a write to either file.
C4_UnchangedSkipsEverything ==
    (/\ cur # None
     /\ read_hash(hashAtStart) # <<>>
     /\ read_hash(hashAtStart) = generate_song_hash(cur))
        => /\ pc = "idle"
           /\ last = [ret |-> TRUE, why |-> "unchanged", at |-> ""]
           /\ did = {}
           /\ imageFile = imgAtStart
           /\ hashFile = hashAtStart

C4_Witness ==
    /\ pc = "idle" /\ last.why = "unchanged" /\ last.ret
    /\ cur # None /\ cur.title = <<"A">> /\ cur.artwork_url = "url"
    /\ hashFile.data = generate_song_hash(cur)
    /\ did = {}

\* C6: after an update_song that succeeded for metadata m, the next
\* update_song with the same (title, artist, album) finds the song
\* unchanged, writes no image and returns True.
C6_SecondCallUnchanged ==
    [][(/\ pc = "idle" /\ last.why = "ok"
        /\ cur' # None
        /\ RawTriple(cur') = RawTriple(cur))
          => (/\ pc' = "idle"
              /\ last' = [ret |-> TRUE, why |-> "unchanged", at |-> ""]
              /\ did' = {}
              /\ imageFile' = imageFile
              /\ hashFile' = hashFile)]_vars

C6_Witness ==
    /\ pc = "idle" /\ last.why = "unchanged" /\ prevWhy = "ok"
    /\ cur.title = <<"A">>
    /\ CompleteImage(imageFile) /\ imageFile = imgAtStart

\* C10: whatever goes wrong with the artwork (no URL, network or HTTP
\* error, timeout, content that cannot be decoded at open or at load), the
\* render proceeds with the placeholder and generate_image does not return
\* False because of it.
C10_ArtworkNeverFailsRender ==
    art \in ArtworkFailures =>
        /\ canvas # None
        /\ canvas.artwork = "placeholder"
        /\ ~(pc = "idle" /\ last.why = "genfail" /\ last.at = "resize")

\* C11: update_song and generate_image never let an exception out: for
\* metadata of any shape and any failure of fetch, composition, save of the
\* image or of the hash, each returns a boolean; update_song returns True
\* only when the song is unchanged or both the image and the hash were
\* saved, and False whenever the image generation or the hash save failed.
C11_AlwaysReturnsBoolean ==
    (pc = "idle" /\ last.why # "init") =>
        /\ last.why # "exception"
        /\ last.ret \in BOOLEAN
        /\ caller = "update_song" =>
              /\ last.ret => last.why \in {"unchanged", "ok"}
              /\ (last.why # "unchanged"
                    /\ ~({"image_saved", "hash_saved"} \subseteq did)) => ~last.ret
              /\ last.why = "ok" =>
                    /\ imageFile = File(encoded(canvas))
                    /\ hashFile = File(generate_song_hash(cur))
        /\ caller = "generate_image" => (last.ret <=> "image_saved" \in did)

C11_Witness ==
    /\ pc = "idle" /\ caller = "update_song"
    /\ cur # None /\ "title" \in DOMAIN cur /\ cur.title = NoneValue
    /\ last = [ret |-> FALSE, why |-> "error", at |-> "gate"]
    /\ hashFile.exists

-----------------------------------------------------------------------------
(* Claims about _wrap_text *)

\* C12: _wrap_text never drops, duplicates or reorders words: the returned
\* lines joined with single spaces and split on whitespace give exactly the
\* words of text.split(), also when a word is wider than max_width.
C12_WrapKeepsWords ==
    pc = "wrapped" => split(join(wlines)) = split(wtext)

C12_Witness ==
    /\ pc = "wrapped"
    /\ Len(wlines) = 2
    /\ text_width(wlines[1]) <= wmax
    /\ text_width(wlines[2]) > wmax
    /\ split(join(wlines)) = split(wtext)

\* C13 as claimed: for an empty or whitespace-only text _wrap_text returns
\* exactly one line, the label "Unknown".
C13_EmptyTextGivesUnknown ==
    (pc = "wrapped" /\ split(wtext) = <<>>) => wlines = <<Unknown>>

\* C13 as amended: for an empty or whitespace-only text _wrap_text returns
\* exactly one line, and that line is the text itself.
C13_EmptyTextGivesItself ==
    (pc = "wrapped" /\ split(wtext) = <<>>) => (Len(wlines) = 1 /\ wlines[1] = wtext)

C13_Witness ==
    /\ pc = "wrapped"
    /\ wtext = <<" ", " ">>
    /\ wlines = << <<" ", " ">> >>

-----------------------------------------------------------------------------
(* Claims about the grayscale conversion *)

Levels == {0, 85, 170, 255}

Distance(x, y) == IF x >= y THEN x - y ELSE y - x

\* C15 as claimed: in grayscale mode every luminance value is mapped to the
\* member of {0, 85, 170, 255} nearest to it.
C15_NearestLevel ==
    pc = "converted" =>
        /\ lumq \in Levels
        /\ \A l \in Levels : Distance(lum, lumq) <= Distance(lum, l)

\* C15 as amended: every luminance value is mapped to the level of its
\* quarter of the range: 0..63 to 0, 64..127 to 85, 128..191 to 170 and
\* 192..255 to 255; the result is always one of the four levels.
C15_LevelOfQuarter ==
    pc = "converted" =>
        /\ lumq \in Levels
        /\ lum \in 0..63    => lumq = 0
        /\ lum \in 64..127  => lumq = 85
        /\ lum \in 128..191 => lumq = 170
        /\ lum \in 192..255 => lumq = 255

C15_Witness ==
    /\ pc = "converted"
    /\ lum = 200
    /\ lumq = 255
    /\ Distance(lum, 170) < Distance(lum, lumq)

-----------------------------------------------------------------------------
(* Claims about the text layout *)

\* the texts drawn for a block, in drawing order
Drawn(block) ==
    LET calls == SelectSeq(draws, LAMBDA d : d.op = "text" /\ d.block = block)
    IN  [i \in 1..Len(calls) |-> calls[i].text]

HasPlayTime == lin.song_info.play_time # "None"

\* C14: whenever the title, artist or album is absent from the upstream song
\* data, the text block drawn for it is the literal label "Unknown", for
\* metadata built by get_current_song as well as for dictionaries lacking
\* the key (an album block may still be cut off by the canvas bottom).
C14_AbsentFieldDrawnUnknown ==
    pc = "drawn" =>
        /\ "title" \notin DOMAIN lin.upstream => Drawn("title") = <<Unknown>>
        /\ "artist" \notin DOMAIN lin.upstream => Drawn("artist") = <<Unknown>>
        /\ "album" \notin DOMAIN lin.upstream =>
              /\ blocks.album = <<Unknown>>
              /\ Drawn("album") \in {<<>>, <<Unknown>>}

\* C16: with a play time the cursor of the first title line is strictly
\* below the bottom row of the banner, by at least line_spacing; without a
\* play time no banner is drawn and the cursor starts at text_margin.
C16_TitleBelowBanner ==
    (pc = "title" /\ todo = blocks.title) =>
        IF HasPlayTime
        THEN /\ current_y > BannerBottom
             /\ current_y - BannerBottom >= lin.line_spacing
        ELSE /\ current_y = lin.text_margin
             /\ draws = <<>>

BlockOrder(block) ==
    CASE block = "time"   -> 0
      [] block = "title"  -> 1
      [] block = "artist" -> 2
      [] block = "album"  -> 3

C17_DrawsInOrder ==
    /\ \A i, j \in DOMAIN draws :
          i < j => /\ BlockOrder(draws[i].block) <= BlockOrder(draws[j].block)
                   /\ draws[i].block # "time" => draws[i].y <= draws[j].y
    /\ \A i \in DOMAIN draws :
          draws[i].block = "album" => draws[i].y + 20 <= lin.height
    /\ pc \in {"artist", "album", "drawn"} => Drawn("title") = blocks.title
    /\ pc \in {"album", "drawn"} => Drawn("artist") = blocks.artist
    /\ IsPrefix(Drawn("album"), blocks.album)
    /\ pc = "drawn" =>
          /\ Drawn("album") # blocks.album => current_y + 20 > lin.height
          /\ Len(draws) = (IF HasPlayTime THEN 2 ELSE 0) + Len(blocks.title)
                             + Len(blocks.artist) + Len(Drawn("album"))

\* C17: the album lines drawn are a prefix of the wrapped album lines, each
\* drawn only with cursor + 20 <= height; after the first line that fails
\* the test nothing more is drawn; title and artist lines are all drawn, in
\* the order title, artist, album; the cursor never decreases.
C17_AlbumPrefixDrawn ==
    /\ []C17_DrawsInOrder
    /\ [][current_y' >= current_y]_vars

C17_Witness ==
    /\ pc = "drawn"
    /\ Len(Drawn("album")) = 1
    /\ Len(blocks.album) = 3
    /\ current_y + 20 > lin.height

-----------------------------------------------------------------------------
(* Claims about retrying after a failed hash save *)

\* an invocation that wrote the image and then failed to save the hash
HashSaveFailed ==
    pc = "idle" /\ last.why = "hashfail" /\ "image_saved" \in did

CompleteRenderOf(f, m) ==
    /\ CompleteImage(f)
    /\ \A i \in 1..ImgChunks : f.data[i][1].song = m /\ f.data[i][2] = i

Healed ==
    /\ cur # None
    /\ hashFile = File(generate_song_hash(cur))
    /\ CompleteRenderOf(imageFile, cur)

\* C18: after an invocation for m that wrote the image but failed to save
\* the hash, has_song_changed(m) is True, so the next invocation renders
\* again; and with the same m polled repeatedly and saves that eventually
\* succeed, the system reaches and stays in a state where the hash file is
\* the hash of m and the image file is a complete render of m.
C18_SelfHealing ==
    /\ [](HashSaveFailed => has_song_changed(cur, hashFile))
    /\ (HashSaveFailed ~> pc = "generate")
    /\ [](HashSaveFailed => <>[]Healed)

C18_Witness ==
    /\ HashSaveFailed
    /\ last.at = "write"
    /\ Len(hashFile.data) = 1
    /\ CompleteHash(hashAtStart)
    /\ CompleteRenderOf(imageFile, cur)

====
